---- MODULE Spec2Model ----
(***************************************************************************)
(* Model of the recipe view of Coffeemaster-AI                             *)
(* (src/components/RecipeGenerator.tsx), of the chat view                  *)
(* (src/components/ChatInterface.tsx) and of the services they call        *)
(* (services/gemini).  The two views share no state: Spec and FairSpec     *)
(* run the recipe view, ChatSpec runs the chat view.                       *)
(*                                                                         *)
(* The component state (useState / useRef) is the state of the model.      *)
(* A handler runs to its next await in one action; every await (recipe     *)
(* request, main-image request, 4000 ms timer, step-image request) is a    *)
(* suspension point whose completion is a separate action.                 *)
(***************************************************************************)
EXTENDS Integers, Sequences, FiniteSets, TLC

\* ---------------------------------------------------------------- bounds
MaxSessions == 2      \* handleGenerate submissions explored
MaxSteps == 2         \* longest recipe.steps explored
MaxSends == 2         \* handleSend submissions explored
MaxChunks == 2        \* longest groundingChunks list explored

\* ------------------------------------------------------------ value space
Languages == {"en", "zh"}

\* prompts are character sequences; " " stands for any white space
Prompts == {<<>>, <<" ">>, <<"a">>}

RECURSIVE TrimStart(_)
TrimStart(s) == IF s # <<>> /\ Head(s) = " " THEN TrimStart(Tail(s)) ELSE s

RECURSIVE TrimEnd(_)
TrimEnd(s) ==
  IF s # <<>> /\ s[Len(s)] = " " THEN TrimEnd(SubSeq(s, 1, Len(s) - 1)) ELSE s

\* String.prototype.trim
Trim(s) == TrimEnd(TrimStart(s))

\* t.error, the localized message of the language the handler was created in
\* (the zh text is transliterated)
TError(lang) ==
  IF lang = "en" THEN "Failed to brew your recipe. Please try again."
  ELSE "recipe generation failed, please retry (zh)"

NoError == "null"

\* an image payload is identified by the request that produced it
Image(s, kind, i) == [sid |-> s, kind |-> kind, i |-> i]
NoImage == Image(0, "none", 0)

\* step texts of a recipe with n steps
StepTexts(n) == [k \in 1..n |-> k - 1]

\* values of type Recipe | null as they exist at run time.  present = FALSE
\* is null; hasIngredients / hasSteps tell whether the property is an array.
RecipeValue(present, hasIngredients, hasSteps, steps) ==
  [present |-> present, hasIngredients |-> hasIngredients,
   hasSteps |-> hasSteps, steps |-> steps]
NullRecipe == RecipeValue(FALSE, FALSE, FALSE, <<>>)

\* the Recipe shape of types.ts: an object with both sequences
IsRecipeShape(r) == r.present /\ r.hasIngredients /\ r.hasSteps

\* what the recipe capability can answer: a rejected request, an empty text,
\* a text that is not JSON, or a JSON text denoting some value
RecipeResponses ==
  { [kind |-> k, value |-> NullRecipe] : k \in {"reject", "empty", "invalid"} }
  \cup { [kind |-> "json", value |-> NullRecipe] }
  \cup { [kind |-> "json", value |-> RecipeValue(TRUE, ing, TRUE, StepTexts(n))] :
           ing \in BOOLEAN, n \in 0..MaxSteps }
  \cup { [kind |-> "json", value |-> RecipeValue(TRUE, ing, FALSE, <<>>)] :
           ing \in BOOLEAN }

Thrown == [threw |-> TRUE, value |-> NullRecipe]
Returned(v) == [threw |-> FALSE, value |-> v]

\* generateCoffeeRecipe: await generateContent (rejection propagates),
\* throw on falsy text, otherwise JSON.parse(text) as Recipe
generateCoffeeRecipe(resp) ==
  IF resp.kind = "reject" THEN Thrown
  ELSE IF resp.kind = "empty" THEN Thrown
  ELSE IF resp.kind = "invalid" THEN Thrown
  ELSE Returned(resp.value)

\* ------------------------------------------------------------------ state
VARIABLES
  prompt,           \* useState prompt
  loading,          \* useState loading
  recipe,           \* useState recipe
  imageUrl,         \* useState imageUrl
  stepImages,       \* useState stepImages: step index -> image
  error,            \* useState error
  step,             \* useState step: 'input' | 'generating' | 'result'
  isGeneratingRef,  \* isGeneratingRef.current
  pending,          \* the handleGenerate call suspended in its recipe request
  session,          \* number of sessions started so far
  runs,             \* session -> its generateImagesSequentially run
  issued,           \* session -> requests issued and waits completed, in order
  outcome,          \* session -> results of its requests
  cancelled,        \* session -> the flag was cleared after the session began
  returnedEarly     \* the step just taken was a handleGenerate call that
                    \* returned at its first line

vars == <<prompt, loading, recipe, imageUrl, stepImages, error, step,
          isGeneratingRef, pending, session, runs, issued, outcome, cancelled,
          returnedEarly>>

\* state of ChatInterface
VARIABLES
  language,         \* prop language of ChatInterface
  messages,         \* useState messages
  input,            \* useState input
  isLoading,        \* useState isLoading
  requests,         \* handleSend calls suspended in chatWithCoffeeExpert
  sends,            \* number of submissions so far
  lastReply         \* what the latest settled chat request was answered

chatVars == <<language, messages, input, isLoading, requests, sends, lastReply>>

\* the state of both views
allVars == <<vars, chatVars>>

Sessions == 1..MaxSessions

Ev(e, i) == [ev |-> e, i |-> i]
MainReq == Ev("main", 0)
WaitDone(i) == Ev("wait", i)
StepReq(i) == Ev("step", i)

Run(pc, i, r) == [pc |-> pc, i |-> i, recipe |-> r]
NoRun == Run("none", 0, NullRecipe)

NoPending == [active |-> FALSE, sid |-> 0, lang |-> "en"]

NoResponse == [kind |-> "none", value |-> NullRecipe]

NoOutcome ==
  [response |-> NoResponse, recipe |-> "none", main |-> "none", steps |-> <<>>]

\* {} as a Record<number, string>
EmptyMap == [k \in {} |-> NoImage]

\* a slip that forgets the spread of prev
Put_Replace(prev, i, img) == [k \in {i} |-> img]

\* { ...prev, [i]: img }
Put(prev, i, img) ==
  [k \in (DOMAIN prev) \cup {i} |-> IF k = i THEN img ELSE prev[k]]

RecipeInit ==
  /\ prompt = <<>>
  /\ loading = FALSE
  /\ recipe = NullRecipe
  /\ imageUrl = NoImage
  /\ stepImages = EmptyMap
  /\ error = NoError
  /\ step = "input"
  /\ isGeneratingRef = FALSE
  /\ pending = NoPending
  /\ session = 0
  /\ runs = [s \in Sessions |-> NoRun]
  /\ issued = [s \in Sessions |-> <<>>]
  /\ outcome = [s \in Sessions |-> NoOutcome]
  /\ cancelled = [s \in Sessions |-> FALSE]
  /\ returnedEarly = FALSE

NoReply == [kind |-> "none", text |-> "", hasChunks |-> FALSE, chunks |-> <<>>]

\* ChatInterface before its first effect has run
ChatUnmounted ==
  /\ messages = <<>>
  /\ input = <<>>
  /\ isLoading = FALSE
  /\ requests = <<>>
  /\ sends = 0
  /\ lastReply = NoReply

Init == RecipeInit /\ language = "en" /\ ChatUnmounted

\* -------------------------------------------------------------- rendering
\* the result block (step === 'result' && recipe) maps over
\* recipe.ingredients and recipe.steps; without both arrays the render throws
\* and the view, with its reset button, is gone
ResetButtonShown == step = "result" /\ IsRecipeShape(recipe)

\* the input block, with the textarea, the presets and the generate button
InputShown == step = "input"

\* ------------------------------------------------- generateImagesSequentially
\* a slip in the loop bound that leaves the last step out
LoopHead_OffByOne(r, i, flag) ==
  IF ~r.hasSteps THEN Run("threw", i, r)
  ELSE IF i + 1 < Len(r.steps) /\ flag THEN Run("wait", i, r)
  ELSE Run("done", i, r)

\* the loop head for index i: the condition i < steps.length (a TypeError when
\* steps is missing) and the first liveness check, up to the 4000 ms timer
LoopHead(r, i, flag) ==
  IF ~r.hasSteps THEN Run("threw", i, r)
  ELSE IF i < Len(r.steps) /\ flag THEN Run("wait", i, r)
  ELSE Run("done", i, r)

\* the call itself runs synchronously up to its first await
StartRun(r, flag) ==
  IF ~flag THEN Run("done", 0, r)
  ELSE IF ~r.present THEN LoopHead(r, 0, flag)
  ELSE Run("awaitMain", 0, r)

StartEvents(r, flag) == IF flag /\ r.present THEN <<MainReq>> ELSE <<>>

\* a slip that repeats the iteration of a step whose request failed
NextIndex_Retry(i, ok) == IF ok THEN i + 1 ELSE i

\* index the loop goes on with after the try/catch of step i, whose request
\* resolved (ok) or threw: both paths fall through to i++
NextIndex(i, ok) == i + 1

\* a slip that applies a result without looking at the flag
MayApply_Always(flag) == TRUE

\* the check made before a result is applied
MayApply(flag) == flag

\* the check made after the timer, before the step request is issued
MayRequest(flag) == flag

CancelAll == [s \in Sessions |-> cancelled[s] \/ s <= session]

\* A call of generateImagesSequentially that has returned (or thrown) in a
\* cancelled session can do nothing more and its locals are gone: its record
\* and the log kept for it are dropped.  The log of a run is kept while the
\* run executes and, after that, as long as its session is live.
Retired(s, rs, c) == c[s] /\ rs[s].pc \in {"done", "threw"}

\* The results of the requests are recorded for the sessions that have not
\* been cancelled; of a cancelled session only the fate of its recipe request
\* is remembered.
Forgotten(o) == [NoOutcome EXCEPT !.recipe = o.recipe]

KeepRuns(rs, c) ==
  [s \in Sessions |->
     IF Retired(s, rs, c) THEN Run(rs[s].pc, 0, NullRecipe) ELSE rs[s]]

KeepIssued(rs, is, c) ==
  [s \in Sessions |-> IF Retired(s, rs, c) THEN <<>> ELSE is[s]]

KeepOutcome(oc, c) ==
  [s \in Sessions |-> IF c[s] THEN Forgotten(oc[s]) ELSE oc[s]]

\* ------------------------------------------------------------ user actions
\* textarea onChange and the preset buttons
SetPrompt(p) ==
  /\ InputShown
  /\ p # prompt
  /\ prompt' = p
  /\ UNCHANGED <<loading, recipe, imageUrl, stepImages, error, step,
                 isGeneratingRef, pending, session, runs, issued, outcome,
                 cancelled>>
  /\ returnedEarly' = FALSE
  /\ UNCHANGED chatVars

\* handleGenerate up to its await of generateCoffeeRecipe; lang is the value
\* of the language prop in the render the handler (and its t) belongs to
HandleGenerate(inputPrompt, lang) ==
  /\ InputShown
  /\ session < MaxSessions
  /\ Trim(inputPrompt) # <<>>
  /\ isGeneratingRef' = FALSE
  /\ cancelled' = CancelAll
  /\ prompt' = inputPrompt
  /\ loading' = TRUE
  /\ error' = NoError
  /\ step' = "generating"
  /\ recipe' = NullRecipe
  /\ imageUrl' = NoImage
  /\ stepImages' = EmptyMap
  /\ session' = session + 1
  /\ pending' = [active |-> TRUE, sid |-> session + 1, lang |-> lang]
  /\ runs' = KeepRuns(runs, CancelAll)
  /\ issued' = KeepIssued(runs, issued, CancelAll)
  /\ outcome' = KeepOutcome([outcome EXCEPT ![session + 1].recipe = "pending"],
                            CancelAll)
  /\ returnedEarly' = FALSE
  /\ UNCHANGED chatVars

\* a slip that puts the prompt test below the cancellation
EarlyReturn_AfterCancel ==
  /\ isGeneratingRef' = FALSE
  /\ cancelled' = CancelAll
  /\ UNCHANGED <<prompt, loading, recipe, imageUrl, stepImages, error, step,
                 pending, session, runs, issued, outcome>>

\* if (!inputPrompt.trim()) return; as the first statement of handleGenerate
EarlyReturn ==
  UNCHANGED <<prompt, loading, recipe, imageUrl, stepImages, error, step,
              isGeneratingRef, pending, session, runs, issued, outcome,
              cancelled>>

\* handleGenerate called with a prompt that trims to nothing.  The generate
\* button is disabled for such a prompt, so this is a call that does not come
\* from the button; it can come in any view.
HandleGenerateBlank(inputPrompt) ==
  /\ Trim(inputPrompt) = <<>>
  /\ EarlyReturn
  /\ returnedEarly' = TRUE
  /\ UNCHANGED chatVars

\* a slip that leaves the flag as it is
HandleReset_KeepsFlag ==
  /\ ResetButtonShown
  /\ step' = "input"
  /\ cancelled' = CancelAll
  /\ runs' = KeepRuns(runs, CancelAll)
  /\ issued' = KeepIssued(runs, issued, CancelAll)
  /\ outcome' = KeepOutcome(outcome, CancelAll)
  /\ UNCHANGED <<prompt, loading, recipe, imageUrl, stepImages, error,
                 pending, session, isGeneratingRef>>
  /\ returnedEarly' = FALSE
  /\ UNCHANGED chatVars

\* handleReset
HandleReset ==
  /\ ResetButtonShown
  /\ isGeneratingRef' = FALSE
  /\ step' = "input"
  /\ cancelled' = CancelAll
  /\ runs' = KeepRuns(runs, CancelAll)
  /\ issued' = KeepIssued(runs, issued, CancelAll)
  /\ outcome' = KeepOutcome(outcome, CancelAll)
  /\ UNCHANGED <<prompt, loading, recipe, imageUrl, stepImages, error,
                 pending, session>>
  /\ returnedEarly' = FALSE
  /\ UNCHANGED chatVars

\* a slip that reports the failure but leaves the view where it is
CatchBlock_NoStep(lang) ==
  /\ error' = TError(lang)
  /\ loading' = FALSE
  /\ UNCHANGED step

\* the catch block of handleGenerate
CatchBlock(lang) ==
  /\ error' = TError(lang)
  /\ step' = "input"
  /\ loading' = FALSE

\* ------------------------------------------------------ request completions
\* the rest of handleGenerate once generateCoffeeRecipe has settled
RecipeSettles(resp) ==
  /\ pending.active
  /\ pending' = NoPending
  /\ LET res == generateCoffeeRecipe(resp)
         s == pending.sid
     IN IF res.threw
        THEN /\ CatchBlock(pending.lang)
             /\ outcome' = [outcome EXCEPT ![s].recipe = "fail",
                                            ![s].response = resp]
             /\ UNCHANGED <<recipe, isGeneratingRef, runs, issued>>
        ELSE /\ recipe' = res.value
             /\ step' = "result"
             /\ loading' = FALSE
             /\ isGeneratingRef' = TRUE
             /\ runs' = [runs EXCEPT ![s] = StartRun(res.value, TRUE)]
             /\ issued' = [issued EXCEPT ![s] = StartEvents(res.value, TRUE)]
             /\ outcome' = [outcome EXCEPT ![s].recipe = "ok",
                                            ![s].response = resp]
             /\ UNCHANGED error
  /\ UNCHANGED <<prompt, imageUrl, stepImages, session, cancelled>>
  /\ returnedEarly' = FALSE
  /\ UNCHANGED chatVars

\* generateRecipeImage settles: apply if live, then enter the loop
MainImageSettles(s, ok) ==
  /\ runs[s].pc = "awaitMain"
  /\ imageUrl' = IF ok /\ MayApply(isGeneratingRef)
                 THEN Image(s, "main", 0) ELSE imageUrl
  /\ LET rs == [runs EXCEPT
                  ![s] = LoopHead(runs[s].recipe, 0, isGeneratingRef)]
         oc == [outcome EXCEPT ![s].main = IF ok THEN "ok" ELSE "fail"]
     IN /\ runs' = KeepRuns(rs, cancelled)
        /\ issued' = KeepIssued(rs, issued, cancelled)
        /\ outcome' = KeepOutcome(oc, cancelled)
  /\ UNCHANGED <<prompt, loading, recipe, stepImages, error, step,
                 isGeneratingRef, pending, session, cancelled>>
  /\ returnedEarly' = FALSE
  /\ UNCHANGED chatVars

\* the 4000 ms timer fires: second liveness check, then generateStepImage
WaitElapses(s) ==
  /\ runs[s].pc = "wait"
  /\ LET i == runs[s].i
     IN IF MayRequest(isGeneratingRef)
        THEN /\ runs' = [runs EXCEPT ![s].pc = "awaitStep"]
             /\ issued' = [issued EXCEPT
                             ![s] = issued[s] \o <<WaitDone(i), StepReq(i)>>]
             /\ UNCHANGED outcome
        ELSE LET rs == [runs EXCEPT ![s].pc = "done"]
                 is == [issued EXCEPT ![s] = Append(issued[s], WaitDone(i))]
             IN /\ runs' = KeepRuns(rs, cancelled)
                /\ issued' = KeepIssued(rs, is, cancelled)
                /\ outcome' = KeepOutcome(outcome, cancelled)
  /\ UNCHANGED <<prompt, loading, recipe, imageUrl, stepImages, error,
                 step, isGeneratingRef, pending, session, cancelled>>
  /\ returnedEarly' = FALSE
  /\ UNCHANGED chatVars

\* generateStepImage settles: apply if live, then the next iteration
StepImageSettles(s, ok) ==
  /\ runs[s].pc = "awaitStep"
  /\ LET i == runs[s].i
     IN /\ stepImages' = IF ok /\ MayApply(isGeneratingRef)
                         THEN Put(stepImages, i, Image(s, "step", i))
                         ELSE stepImages
        /\ LET rs == [runs EXCEPT
                        ![s] = LoopHead(runs[s].recipe, NextIndex(i, ok),
                                        isGeneratingRef)]
               oc == [outcome EXCEPT
                        ![s].steps = Append(@, IF ok THEN "ok" ELSE "fail")]
           IN /\ runs' = KeepRuns(rs, cancelled)
              /\ issued' = KeepIssued(rs, issued, cancelled)
              /\ outcome' = KeepOutcome(oc, cancelled)
  /\ UNCHANGED <<prompt, loading, recipe, imageUrl, error, step,
                 isGeneratingRef, pending, session, cancelled>>
  /\ returnedEarly' = FALSE
  /\ UNCHANGED chatVars

Next ==
  \/ \E p \in Prompts : SetPrompt(p)
  \/ \E lang \in Languages : HandleGenerate(prompt, lang)
  \/ HandleReset
  \/ \E resp \in RecipeResponses : RecipeSettles(resp)
  \/ \E s \in Sessions, ok \in BOOLEAN : MainImageSettles(s, ok)
  \/ \E s \in Sessions : WaitElapses(s)
  \/ \E s \in Sessions, ok \in BOOLEAN : StepImageSettles(s, ok)

Spec == Init /\ [][Next]_allVars

\* the recipe view with handleGenerate also called on blank prompts
CallNext ==
  \/ Next
  \/ \E p \in Prompts : HandleGenerateBlank(p)

CallSpec == Init /\ [][CallNext]_allVars

TypeOK ==
  /\ prompt \in Prompts
  /\ loading \in BOOLEAN
  /\ step \in {"input", "generating", "result"}
  /\ isGeneratingRef \in BOOLEAN
  /\ session \in 0..MaxSessions
  /\ returnedEarly \in BOOLEAN
  /\ \A s \in Sessions :
       runs[s].pc \in {"none", "awaitMain", "wait", "awaitStep", "done", "threw"}

\* ============================================================ ChatInterface
\* Texts are sequences of tokens, like the prompt, so that trim() applies.
ChatInputs == {<<>>, <<" ">>, <<"q">>}

\* t.welcome and t.error of ChatInterface for a language
Welcome(lang) ==
  IF lang = "en" THEN <<"Hello! I'm your Coffee Master.">>
  ELSE <<"ni hao! wo shi ni de zhuanshu kafei dashi.">>

ChatError(lang) ==
  IF lang = "en" THEN <<"Sorry, I'm having trouble connecting.">>
  ELSE <<"baoqian, wo xianzai lianjie you dian kunnan.">>

\* a field the provider left out
Undefined == "undefined"

\* JavaScript truthiness of an optional string
Truthy(x) == x # Undefined /\ x # ""

\* Message.sources: absent, or a list
NoSources == [defined |-> FALSE, list |-> <<>>]
Sources(list) == [defined |-> TRUE, list |-> list]

\* interface Message
Message(id, role, text, sources) ==
  [id |-> id, role |-> role, text |-> text, sources |-> sources]

\* A grounding chunk as the mapper reads it: chunk.web?.uri and chunk.web.title.
\* A chunk without web reads like one whose web has no uri.
Chunk(uri, title) == [uri |-> uri, title |-> title]

ChunkKinds ==
  {Chunk("u1", "t1"), Chunk("u2", Undefined), Chunk(Undefined, "t3")}

ChunkLists ==
  UNION {[1..n -> ChunkKinds] : n \in 0..MaxChunks}

\* what chatWithCoffeeExpert settles with: a rejection, or a response with an
\* optional text and optional groundingMetadata.groundingChunks
ChatResponse(kind, hasText, text, hasChunks, chunks) ==
  [kind |-> kind, hasText |-> hasText, text |-> text,
   hasChunks |-> hasChunks, chunks |-> chunks]

Rejected == ChatResponse("reject", FALSE, <<>>, FALSE, <<>>)

ChatResponses ==
  {Rejected, ChatResponse("ok", FALSE, <<>>, FALSE, <<>>)}
    \cup {ChatResponse("ok", TRUE, <<"r">>, TRUE, c) : c \in ChunkLists}

\* the entry the mapper returns for one chunk: {uri, title}, or null
NullSource == [isNull |-> TRUE, uri |-> Undefined, title |-> Undefined]
SourceOf(chunk) ==
  IF Truthy(chunk.uri)
    THEN [isNull |-> FALSE, uri |-> chunk.uri, title |-> chunk.title]
    ELSE NullSource

\* mutant: the mapper without its uri test
MapChunks_KeepsAll(chunks) ==
  [k \in 1..Len(chunks) |->
     [isNull |-> FALSE, uri |-> chunks[k].uri, title |-> chunks[k].title]]

\* groundingChunks.map(chunk => ...)
MapChunks(chunks) == [k \in 1..Len(chunks) |-> SourceOf(chunks[k])]

\* .filter(Boolean): null is the only falsy entry the mapper produces
FilterBoolean(list) == SelectSeq(list, LAMBDA e : ~e.isNull)

\* response.groundingMetadata?.groundingChunks?.map(...).filter(Boolean)
SourcesOf(resp) ==
  IF resp.hasChunks THEN Sources(FilterBoolean(MapChunks(resp.chunks)))
  ELSE NoSources

\* response.text || ""
TextOf(resp) == IF resp.hasText THEN resp.text ELSE <<>>

\* one turn of the request: { role, parts: [{ text }] }
Turn(role, text) == [role |-> role, parts |-> <<[text |-> text]>>]

\* mutant: the history with the welcome message left in
HistoryForApi_KeepsInit(msgs) ==
  [k \in 1..Len(msgs) |-> Turn(msgs[k].role, msgs[k].text)]

\* messages.filter(m => m.id !== 'init').map(m => ({role, parts}))
HistoryForApi(msgs) ==
  LET kept == SelectSeq(msgs, LAMBDA m : m.id # "init")
  IN  [k \in 1..Len(kept) |-> Turn(kept[k].role, kept[k].text)]

\* contents of chatWithCoffeeExpert(history, message, language)
Contents(history, message) == history \o <<Turn("user", message)>>

\* a handleSend call suspended at its await: the request it made and the
\* values of the render it closed over
Request(msgs, text, lang) ==
  [contents |-> Contents(HistoryForApi(msgs), text),
   messages |-> msgs, text |-> text, lang |-> lang]

\* mutant: a guard that ignores isLoading
CanSend_IgnoresLoading(in, busy) == Trim(in) # <<>>

\* negation of the early return of handleSend
CanSend(in, busy) == ~(Trim(in) = <<>> \/ busy)

\* mutant: setIsLoading(false) in the try body only
LoadingAfter_OnlyOnSuccess(threw) == threw

\* finally: setIsLoading(false), whether the request threw or not
LoadingAfter(threw) == FALSE

\* the effect run on mount and on every change of language
WelcomeEffect(msgs, lang) ==
  IF Len(msgs) = 0
    THEN <<Message("init", "model", Welcome(lang), NoSources)>>
    ELSE msgs

Mounted == messages # <<>>

ChatInit == RecipeInit /\ language \in Languages /\ ChatUnmounted

\* first render: the effect runs once
Mount ==
  /\ ~Mounted
  /\ messages' = WelcomeEffect(messages, language)
  /\ UNCHANGED <<language, input, isLoading, requests, sends, lastReply>>
  /\ UNCHANGED vars

\* the parent passes another language; the effect runs again
LanguageChanges(l) ==
  /\ Mounted
  /\ l # language
  /\ language' = l
  /\ messages' = WelcomeEffect(messages, l)
  /\ UNCHANGED <<input, isLoading, requests, sends, lastReply>>
  /\ UNCHANGED vars

\* onChange of the input field
SetInput(x) ==
  /\ Mounted
  /\ x # input
  /\ input' = x
  /\ UNCHANGED <<language, messages, isLoading, requests, sends, lastReply>>
  /\ UNCHANGED vars

\* handleSend up to its await (Enter in the field, or the send button)
HandleSend ==
  /\ Mounted
  /\ sends < MaxSends
  /\ CanSend(input, isLoading)
  /\ messages' = Append(messages, Message("ts", "user", input, NoSources))
  /\ input' = <<>>
  /\ isLoading' = TRUE
  /\ requests' = Append(requests, Request(messages, input, language))
  /\ sends' = sends + 1
  /\ UNCHANGED <<language, lastReply>>
  /\ UNCHANGED vars

Without(seq, k) ==
  [j \in 1..(Len(seq) - 1) |-> IF j < k THEN seq[j] ELSE seq[j + 1]]

\* handleSend from its await on: the reply, or the catch block, then finally
ChatSettles(k, resp) ==
  /\ k \in DOMAIN requests
  /\ messages' =
       Append(messages,
              IF resp.kind = "ok"
                THEN Message("ts", "model", TextOf(resp), SourcesOf(resp))
                ELSE Message("ts", "model", ChatError(requests[k].lang),
                             NoSources))
  /\ isLoading' = LoadingAfter(resp.kind # "ok")
  /\ requests' = Without(requests, k)
  /\ lastReply' = resp
  /\ UNCHANGED <<language, input, sends>>
  /\ UNCHANGED vars

ChatNext ==
  \/ Mount
  \/ \E l \in Languages : LanguageChanges(l)
  \/ \E x \in ChatInputs : SetInput(x)
  \/ HandleSend
  \/ \E k \in 1..MaxSends : \E resp \in ChatResponses : ChatSettles(k, resp)

ChatSpec == ChatInit /\ [][ChatNext]_allVars

\* ==================================================================== claims
StepIndices == 0..(MaxSteps - 1)

InFlight == {s \in Sessions : runs[s].pc \in {"awaitMain", "awaitStep"}}

Started(s) == runs[s].pc # "none"
Finished(s) == runs[s].pc = "done"
NSteps(s) == Len(runs[s].recipe.steps)

HoldsImageOf(s) ==
  \/ imageUrl.sid = s
  \/ \E i \in DOMAIN stepImages : stepImages[i].sid = s

StepRequests(log) == SelectSeq(log, LAMBDA e : e.ev = "step")

IsPrefix(a, b) == Len(a) <= Len(b) /\ SubSeq(b, 1, Len(a)) = a

\* main request, then for each step its wait and its request
ExpectedEvents(n) ==
  [k \in 1..(2 * n + 1) |->
     IF k = 1 THEN MainReq
     ELSE IF k % 2 = 0 THEN WaitDone((k - 2) \div 2)
     ELSE StepReq((k - 3) \div 2)]

\* C1: once a session has been cancelled (by a reset or by a new generate), no
\* image produced by that session's run is written into imageUrl or stepImages.
C1_StaleResultDiscarded ==
  [][\A s \in Sessions :
       cancelled[s] =>
         /\ imageUrl'.sid = s => imageUrl' = imageUrl
         /\ \A i \in DOMAIN stepImages' :
              stepImages'[i].sid = s =>
                i \in DOMAIN stepImages /\ stepImages[i] = stepImages'[i]]_vars

\* C2: at most one image request is in flight, counted over all runs.
C2_OneRequestInFlight == Cardinality(InFlight) <= 1

\* C3: once a session has been cancelled, its run issues no further step-image
\* request (the step whose wait was pending at the cancellation, and all later
\* steps, are never requested).
C3_NoRequestAfterCancel ==
  [][\A s \in Sessions :
       cancelled[s] =>
         /\ runs'[s].pc = "awaitStep" => runs[s].pc = "awaitStep"
         /\ IsPrefix(StepRequests(issued'[s]), StepRequests(issued[s]))]_vars

\* C4: a run over a recipe with N steps that is never cancelled issues the main
\* request, then for each step 0..N-1 one completed wait followed by the step
\* request, and nothing else; when it has finished it has issued all of them.
C4_ExactRequests ==
  \A s \in Sessions :
    (Started(s) /\ ~cancelled[s] /\ runs[s].recipe.hasSteps) =>
      /\ IsPrefix(issued[s], ExpectedEvents(NSteps(s)))
      /\ Finished(s) => issued[s] = ExpectedEvents(NSteps(s))
      /\ runs[s].pc # "threw"

C4_Witness ==
  \E s \in Sessions :
    /\ Finished(s) /\ ~cancelled[s]
    /\ NSteps(s) = MaxSteps
    /\ outcome[s].main = "fail"
    /\ outcome[s].steps[1] = "fail"
    /\ Len(issued[s]) = 2 * MaxSteps + 1

\* C5: cancelled or not, a session issues each image request (main, step i) at
\* most once; a failed request is not issued again.
C5_AtMostOncePerSlot ==
  \A s \in Sessions :
    \A j, k \in DOMAIN issued[s] :
      (j # k /\ issued[s][j].ev \in {"main", "step"}) =>
        issued[s][j] # issued[s][k]

C5_Witness ==
  \E s, t \in Sessions :
    /\ runs[s].pc = "awaitStep" /\ runs[s].i = 1
    /\ cancelled[s]
    /\ ~cancelled[t] /\ Finished(t)
    /\ outcome[t].main = "fail"
    /\ outcome[t].steps = <<"fail", "fail">>

AllStepRequests(n) == [k \in 1..n |-> StepReq(k - 1)]

Succeeded(s) ==
  {i \in 0..(NSteps(s) - 1) :
     i + 1 <= Len(outcome[s].steps) /\ outcome[s].steps[i + 1] = "ok"}

\* C6: when the run of a session that was never cancelled has finished, the
\* main image is set exactly when the main request succeeded, and stepImages
\* has exactly the indices whose request succeeded, each with its own image.
C6_FinalImages ==
  \A s \in Sessions :
    (Finished(s) /\ ~cancelled[s] /\ runs[s].recipe.hasSteps) =>
      /\ (imageUrl # NoImage) <=> (outcome[s].main = "ok")
      /\ outcome[s].main = "ok" => imageUrl = Image(s, "main", 0)
      /\ DOMAIN stepImages = Succeeded(s)
      /\ \A i \in DOMAIN stepImages : stepImages[i] = Image(s, "step", i)

\* C7: after the main request of a session that stays live has failed, imageUrl
\* stays empty and the run goes on to wait for and request every step.
C7_MainFailure ==
  \A s \in Sessions :
    (outcome[s].main = "fail" /\ ~cancelled[s] /\ runs[s].recipe.hasSteps) =>
      /\ imageUrl = NoImage
      /\ runs[s].pc \in {"wait", "awaitStep", "done"}
      /\ Finished(s) => StepRequests(issued[s]) = AllStepRequests(NSteps(s))

StepFails(s) ==
  /\ runs[s].pc = "awaitStep"
  /\ Len(outcome'[s].steps) = Len(outcome[s].steps) + 1
  /\ outcome'[s].steps[Len(outcome'[s].steps)] = "fail"

C8_FailureStep ==
  \A s \in Sessions :
    (StepFails(s) /\ ~cancelled[s]) =>
      /\ UNCHANGED <<prompt, loading, recipe, imageUrl, stepImages,
                     error, step, isGeneratingRef, pending, session, issued,
                     cancelled>>
      /\ runs'[s] = IF runs[s].i + 1 < NSteps(s)
                    THEN Run("wait", runs[s].i + 1, runs[s].recipe)
                    ELSE Run("done", runs[s].i + 1, runs[s].recipe)
      /\ \A t \in Sessions \ {s} : runs'[t] = runs[t]

C8_AfterFailure ==
  \A s \in Sessions :
    \A i \in 0..(Len(outcome[s].steps) - 1) :
      outcome[s].steps[i + 1] = "fail" =>
        /\ ~(i \in DOMAIN stepImages /\ stepImages[i] = Image(s, "step", i))
        /\ (~cancelled[s] /\ Finished(s) /\ i + 1 < NSteps(s)) =>
             \E k \in DOMAIN issued[s] :
               /\ issued[s][k] = StepReq(i)
               /\ k + 2 <= Len(issued[s])
               /\ issued[s][k + 1] = WaitDone(i + 1)
               /\ issued[s][k + 2] = StepReq(i + 1)

\* C8: when the request of step i of a live session fails, the failure writes
\* no entry (the image of that request never appears under i), changes nothing
\* but the position of the run, does not end the loop, and the request of step
\* i+1 follows after its own wait.
C8_StepFailureIsolated == []C8_AfterFailure /\ [][C8_FailureStep]_vars

C8_Witness ==
  \E s \in Sessions :
    /\ ~cancelled[s]
    /\ outcome[s].main = "ok" /\ imageUrl = Image(s, "main", 0)
    /\ outcome[s].steps = <<"fail">>
    /\ runs[s].pc = "awaitStep" /\ runs[s].i = 1
    /\ stepImages = EmptyMap

RecipeFails(s) == outcome[s].recipe = "pending" /\ outcome'[s].recipe = "fail"

C9_FailureStep ==
  \A s \in Sessions :
    RecipeFails(s) =>
      /\ ~isGeneratingRef /\ ~isGeneratingRef'
      /\ error' = TError(pending.lang)
      /\ step' = "input"
      /\ ~loading'
      /\ UNCHANGED <<runs, issued>>

C9_AfterFailure ==
  \A s \in Sessions :
    /\ outcome[s].recipe = "pending" => ~isGeneratingRef
    /\ outcome[s].recipe = "fail" => issued[s] = <<>> /\ runs[s] = NoRun

\* C9: when the recipe request fails, the flag has stayed false since the
\* submission, the localized error is set, the view is back at the input step
\* with loading false, and the session never issues an image request.
C9_RecipeFailure == []C9_AfterFailure /\ [][C9_FailureStep]_vars

C9_Witness ==
  /\ session = 2
  /\ outcome[2].recipe = "fail"
  /\ outcome[1].recipe = "ok" /\ runs[1].pc = "done"
  /\ step = "input" /\ error = TError("zh") /\ ~loading

Malformed(resp) == ~(resp.kind = "json" /\ IsRecipeShape(resp.value))

\* C10: every empty, unparseable or wrongly shaped recipe response ends in the
\* error path: no recipe is stored and no image run is started.
C10_MalformedIsFailure ==
  \A s \in Sessions :
    (outcome[s].response # NoResponse /\ Malformed(outcome[s].response)) =>
      /\ outcome[s].recipe = "fail"
      /\ runs[s] = NoRun
      /\ issued[s] = <<>>
      /\ s = session => step # "result"

Active(s) == runs[s].pc \in {"awaitMain", "wait", "awaitStep"}

\* a request is issued in this step by the run of s
Issues(s) ==
  /\ runs'[s].pc \in {"awaitMain", "awaitStep"}
  /\ runs'[s] # runs[s]

\* the only session so far has been reset while, or after, its requests left
\* no image behind
ResetWithoutImage ==
  /\ session = 1 /\ cancelled[1]
  /\ ~isGeneratingRef
  /\ imageUrl = NoImage /\ stepImages = EmptyMap
  /\ runs[1].pc \in {"awaitMain", "done"}

C11_AtReset ==
  (session = 1 /\ cancelled[1] /\ runs[1].pc = "awaitMain") =>
    ResetWithoutImage /\ issued[1] = <<MainReq>>

C11_AfterReset ==
  (ResetWithoutImage /\ session' = 1) =>
    /\ ResetWithoutImage'
    /\ \A s \in Sessions : ~Issues(s)

\* C11: after a reset made while the main-image request (the first request) is
\* still in flight, and without a new generate, imageUrl stays empty, stepImages
\* stays empty, the result of the request in flight is dropped and no request
\* is issued any more.
C11_ResetBeforeImages == []C11_AtReset /\ [][C11_AfterReset]_vars

C11_Witness ==
  /\ session = 1 /\ cancelled[1] /\ step = "input"
  /\ runs[1].pc = "awaitMain"
  /\ Len(recipe.steps) = MaxSteps

\* C12: step images are applied in ascending index order: a key written (or
\* rewritten) in stepImages is larger than every key the map already has.
C12_AscendingOrder ==
  [][\A i \in DOMAIN stepImages' :
       (i \notin DOMAIN stepImages \/ stepImages'[i] # stepImages[i]) =>
         \A j \in DOMAIN stepImages : i > j]_vars

StepSettles(s) == runs[s].pc = "awaitStep" /\ runs'[s] # runs[s]

C13_Frame ==
  /\ \A s \in Sessions :
       StepSettles(s) =>
         LET i == runs[s].i
         IN /\ DOMAIN stepImages' \subseteq (DOMAIN stepImages) \cup {i}
            /\ \A j \in (DOMAIN stepImages) \ {i} :
                 j \in DOMAIN stepImages' /\ stepImages'[j] = stepImages[j]
            /\ stepImages' # stepImages =>
                 i \in DOMAIN stepImages' /\ stepImages'[i] = Image(s, "step", i)
            /\ imageUrl' = imageUrl
            /\ recipe' = recipe
  /\ session' = session => DOMAIN stepImages \subseteq DOMAIN stepImages'

\* C13: applying the image of step i writes key i only; every other entry, the
\* main image and the recipe stay as they are, and within a session no key is
\* removed.
C13_StepImageFrame == [][C13_Frame]_vars

C13_Witness ==
  \E s \in Sessions :
    /\ DOMAIN stepImages = {0, 1}
    /\ stepImages[0] = Image(s, "step", 0)
    /\ stepImages[1] = Image(s, "step", 1)
    /\ imageUrl = Image(s, "main", 0)

\* C18: while the recipe request is in flight (view step 'generating') the flag
\* is false, imageUrl is null and stepImages is empty.
C18_NothingWhileGenerating ==
  /\ pending.active <=> step = "generating"
  /\ step = "generating" =>
       ~isGeneratingRef /\ imageUrl = NoImage /\ stepImages = EmptyMap

C18_Witness ==
  /\ step = "generating" /\ session = 2
  /\ runs[1].pc = "awaitStep"

\* the run of s is resumed from the await it is suspended in
Resumes(s) ==
  \/ \E ok \in BOOLEAN : MainImageSettles(s, ok)
  \/ WaitElapses(s)
  \/ \E ok \in BOOLEAN : StepImageSettles(s, ok)

\* requests settle and timers fire: while some run is suspended, one of the
\* suspended runs is eventually resumed
Fairness == WF_vars(\E s \in Sessions : Resumes(s))

FairSpec == Spec /\ Fairness

\* awaits a run can still go through: the main request, then a wait and a
\* request for each step from its index on
Remaining(run) ==
  IF run.pc = "awaitMain" THEN 2 * Len(run.recipe.steps) + 1
  ELSE IF run.pc = "wait" THEN 2 * (Len(run.recipe.steps) - run.i)
  ELSE IF run.pc = "awaitStep" THEN 2 * (Len(run.recipe.steps) - run.i) - 1
  ELSE 0

C20_Progress ==
  \A s \in Sessions :
    (Active(s) /\ runs'[s] # runs[s]) =>
      /\ Remaining(runs'[s]) < Remaining(runs[s])
      /\ ~isGeneratingRef => (~Active(s)' /\ ~Issues(s))

\* C20: every run terminates when its requests settle and its timers fire (no
\* run stays suspended for ever: at any time it is, or will later be, not
\* active); each resumption leaves it strictly fewer awaits (no retry, no
\* endless loop), and a run resumed while the flag is false issues nothing and
\* ends at once.
C20_Terminates ==
  /\ [][C20_Progress]_vars
  /\ \A s \in Sessions : []<>(~Active(s))

C20_Witness ==
  /\ session = 1 /\ cancelled[1] /\ ~isGeneratingRef
  /\ runs[1].pc = "done"
  /\ Len(recipe.steps) = MaxSteps
  /\ DOMAIN stepImages = {0}

\* ------------------------------------------------------------ chat claims
\* a suspended handleSend resumes in this step
Settled == Len(requests') < Len(requests)

LastMessage(msgs) == msgs[Len(msgs)]

HasUri(chunk) == chunk.uri # Undefined

\* C14: when a reply carrying a list of grounding chunks arrives, the sources
\* of the model message appended for it are the (uri, title) pairs of the
\* chunks that have a URI, in the order of the chunks; chunks without a URI
\* leave no entry.
C14_SourcesFromChunks ==
  [][(Settled /\ lastReply'.kind = "ok" /\ lastReply'.hasChunks) =>
       LET withUri == SelectSeq(lastReply'.chunks, HasUri)
           m == LastMessage(messages')
       IN  /\ Len(messages') = Len(messages) + 1
           /\ m.role = "model"
           /\ m.sources.defined
           /\ Len(m.sources.list) = Len(withUri)
           /\ \A j \in 1..Len(withUri) :
                /\ ~m.sources.list[j].isNull
                /\ m.sources.list[j].uri = withUri[j].uri
                /\ m.sources.list[j].title = withUri[j].title]_chatVars

\* a reply with a full list of chunks, some with and some without a URI, has
\* been turned into the latest message
C14_Witness ==
  /\ lastReply.kind = "ok"
  /\ Len(lastReply.chunks) = MaxChunks
  /\ \E j \in 1..MaxChunks : ~HasUri(lastReply.chunks[j])
  /\ HasUri(lastReply.chunks[MaxChunks])
  /\ LastMessage(messages).role = "model"
  /\ LastMessage(messages).sources.defined
  /\ Len(LastMessage(messages).sources.list) \in 1..(MaxChunks - 1)
\* the request of the suspended handleSend is rejected in this step
ChatFails == Settled /\ lastReply'.kind = "reject"

\* the failure as the user sees it: the error text in the language of the
\* submission, and the send guard open again for a non-blank input
Surfaced(req) ==
  /\ LastMessage(messages').role = "model"
  /\ LastMessage(messages').text = ChatError(req.lang)
  /\ ~isLoading'
  /\ CanSend(<<"q">>, isLoading')

\* C15 as stated: when the chat request fails, the error is shown as a
\* localized message, isLoading is false again, and apart from that message
\* the message list and the input are what they were before the submission.
C15_ReturnsToPreSubmission ==
  [][ChatFails =>
       LET req == requests[1]
       IN  /\ Surfaced(req)
           /\ SubSeq(messages', 1, Len(messages') - 1) = req.messages
           /\ input' = req.text]_chatVars

\* C15, amended: when the chat request fails, the error is shown as one
\* model message in the language of the submission appended after the
\* submitted user message, which stays in the list; isLoading is false again,
\* and the input, cleared at submission, is left as it is (not restored).
C15_FailureSurfaced ==
  [][ChatFails =>
       LET req == requests[1]
       IN  /\ Surfaced(req)
           /\ requests' = <<>>
           /\ messages' =
                req.messages \o
                  <<Message("ts", "user", req.text, NoSources),
                    Message("ts", "model", ChatError(req.lang), NoSources)>>
           /\ input' = input]_chatVars

\* a first submission has failed: welcome, user message, error message
C15_Witness ==
  /\ lastReply = Rejected
  /\ ~isLoading
  /\ Len(messages) = 3
  /\ messages[2].role = "user"
  /\ messages[2].text = <<"q">>
  /\ messages[3].text = ChatError(language)
  /\ input = <<>>
\* C16: the turn list of every request in flight is the messages before the
\* submission in order, each with its own role and text, without the welcome
\* message, followed by the submitted user message once, as the last turn.
C16_TurnList ==
  \A k \in DOMAIN requests :
    LET c == requests[k].contents
    IN  /\ messages[1].id = "init"
        /\ Len(c) = Len(messages) - 1
        /\ \A j \in 1..Len(c) :
             /\ messages[j + 1].id # "init"
             /\ c[j].role = messages[j + 1].role
             /\ c[j].parts = <<[text |-> messages[j + 1].text]>>
        /\ c[Len(c)].role = "user"
        /\ c[Len(c)].parts = <<[text |-> requests[k].text]>>

\* a second submission is in flight: its turn list holds the first exchange
\* and the new user message
C16_Witness ==
  /\ Len(requests) = 1
  /\ Len(messages) = 4
  /\ Len(requests[1].contents) = 3
  /\ requests[1].contents[2].role = "model"
\* C17: when the language changes while the welcome message is the only
\* message, the welcome message becomes the welcome text of the new language.
C17_WelcomeFollowsLanguage ==
  [][(language' # language /\ Len(messages) = 1 /\ messages[1].id = "init") =>
       messages' = <<Message("init", "model", Welcome(language'), NoSources)>>
    ]_chatVars

\* the messages after the welcome message alternate user, model, and every
\* completed submission has added exactly one model message
Alternates ==
  /\ \A j \in 2..Len(messages) :
       messages[j].role = IF j % 2 = 0 THEN "user" ELSE "model"
  /\ Mounted => Len(messages) = 1 + sends + (sends - Len(requests))

C19_State ==
  /\ Len(requests) <= 1
  /\ isLoading <=> Len(requests) = 1
  /\ Alternates

\* no step starts a request or adds a user message from a state where
\* isLoading is true or the input is blank
C19_Step ==
  (isLoading \/ Trim(input) = <<>>) =>
    /\ Len(requests') <= Len(requests)
    /\ sends' = sends
    /\ (Len(messages') > Len(messages) => LastMessage(messages').role = "model")

\* C19: at most one chat request is in flight, isLoading is true exactly
\* while one is, handleSend does nothing while isLoading is true or the input
\* is blank, and the messages after the welcome message alternate user,
\* model, one model message per completed submission.
C19_OneRequest == []C19_State /\ [][C19_Step]_chatVars

\* every submission allowed has completed, with a reply and with an error,
\* and the user has typed again
C19_Witness ==
  /\ sends = MaxSends
  /\ requests = <<>>
  /\ Len(messages) = 1 + 2 * MaxSends
  /\ \E j \in 2..Len(messages) : messages[j].text = ChatError(language)
  /\ \E j \in 2..Len(messages) : messages[j].sources.defined
  /\ input = <<"q">>
\* ------------------------------------------------- frame of the handlers
\* handleReset runs in this step: it is the only way from 'result' to 'input'
ResetStep == step = "result" /\ step' = "input"

\* no handleGenerate submission in this step
NoSubmission == session' = session

C22_Frame ==
  /\ ResetStep =>
       /\ ~isGeneratingRef'
       /\ UNCHANGED <<recipe, imageUrl, stepImages, prompt, error, loading>>
  /\ (step = "input" /\ NoSubmission) =>
       UNCHANGED <<recipe, imageUrl, stepImages>>
  /\ ~NoSubmission =>
       recipe' = NullRecipe /\ imageUrl' = NoImage /\ stepImages' = EmptyMap

\* C22: handleReset sets the flag to false and the view step to 'input' and
\* leaves recipe, imageUrl, stepImages, prompt, error and loading as they
\* are; what was applied stays in the state, through every later step in the
\* input view, until a handleGenerate submission clears it.
C22_ResetFrame == [][C22_Frame]_vars

\* reset after the main image and a step image were applied, a run still
\* waiting: the recipe and the images are still in the state
C22_Witness ==
  /\ step = "input"
  /\ session = 1
  /\ cancelled[1]
  /\ ~isGeneratingRef
  /\ recipe.present
  /\ imageUrl = Image(1, "main", 0)
  /\ DOMAIN stepImages = {0}
  /\ runs[1].pc = "wait"

\* C23: in every reachable state loading is true exactly when the view step
\* is 'generating', the view step 'result' implies that a recipe is stored,
\* and the flag is true only while the view step is 'result'.
C23_ViewInvariant ==
  /\ loading <=> step = "generating"
  /\ step = "result" => recipe.present
  /\ isGeneratingRef => step = "result"
C21_Frame ==
  returnedEarly' =>
    /\ UNCHANGED <<isGeneratingRef, recipe, imageUrl, stepImages, error,
                   loading, step, prompt>>
    /\ UNCHANGED <<pending, session>>
    /\ \A s \in Sessions : ~Issues(s)
    /\ UNCHANGED <<runs, cancelled>>

\* C21: a handleGenerate call with an empty or whitespace-only prompt leaves
\* the flag, recipe, imageUrl, stepImages, error, loading and the view step
\* as they are, issues no request, and cancels no image run.
C21_BlankPromptFrame == [][C21_Frame]_vars

\* a blank call has just returned while a live run of a shown recipe is
\* suspended in a step-image request
C21_Witness ==
  /\ returnedEarly
  /\ step = "result"
  /\ isGeneratingRef
  /\ ~cancelled[1]
  /\ runs[1].pc = "awaitStep"
  /\ imageUrl = Image(1, "main", 0)
====
